---- MODULE Spec2Model ----
(***************************************************************************)
(* Model of darjeeling's generation::NeuralNetwork (src/src/generation.rs): *)
(* construction, the textual model codec (write_model / read_model),       *)
(* forward propagation and inference, and the adversarial training loop.   *)
(*                                                                         *)
(* f32 values are fixed-point integers counting tenths (3 is 0.3, -5 is    *)
(* -0.5).  Strings are sequences of one-character strings, so formatting,  *)
(* splitting and parsing are computed character by character.  Option<T>   *)
(* is a sequence of length at most one: None is <<>> and Some(x) is <<x>>.  *)
(***************************************************************************)
EXTENDS Integers, Sequences, FiniteSets, TLC

VARIABLES
    net,        \* the generator network (self), None before construction
    files,      \* the file system: model file name -> content
    pc,         \* position of the running call
    ret,        \* value returned by the last finished call
    loaded,     \* Option of the network returned by the last read_model
    call,       \* locals and arguments of the running call
    pre,        \* files as they were when the running call started
    args        \* the arguments the network was constructed with

vars == <<net, files, pc, ret, loaded, call, pre, args>>

----------------------------------------------------------------------------
(* Bounds of the model *)

MaxWidth == 2          \* pixel_input, hidden_num, pixel_output range over 0..MaxWidth
MaxHiddenLayers == 1   \* hidden_layers ranges over 0..MaxHiddenLayers
MaxDraws == 2          \* number of independent draws of the random source
MaxSuffix == 1         \* file_num ranges over 0..MaxSuffix
MaxFeatures == 2       \* a sample has 0..MaxFeatures feature values
MaxSamples == 2        \* a data sequence has 0..MaxSamples samples
MaxCycles == 2         \* max_cycles ranges over 0..MaxCycles
MaxCalls == 2             \* backpropogate calls on one network
MaxPasses == 2            \* push_downstream calls on one network

WeightVals == {-3, 2}              \* draws of gen_range(-0.5..0.5), in tenths
FeatureVals == {10}                \* feature values of samples, in tenths
Activations == {"Sigmoid", "Linear", "Tanh", "Step"}
Names == {"gen"}                   \* caller-supplied model names

----------------------------------------------------------------------------
(* Option and small helpers *)

None == <<>>
Some(x) == <<x>>
IsSome(o) == Len(o) = 1
Unwrap(o) == o[1]

Abs(x) == IF x < 0 THEN -x ELSE x
Min(a, b) == IF a < b THEN a ELSE b
Max(a, b) == IF a > b THEN a ELSE b

RECURSIVE Concat(_)
Concat(ss) == IF ss = <<>> THEN <<>> ELSE Head(ss) \o Concat(Tail(ss))

----------------------------------------------------------------------------
(* Characters, f32 formatting (Display) and parsing (str::parse::<f32>) *)

Digits == <<"0", "1", "2", "3", "4", "5", "6", "7", "8", "9">>
IsDigit(c) == \E d \in 1..10 : Digits[d] = c
DigitVal(c) == (CHOOSE d \in 1..10 : Digits[d] = c) - 1

RECURSIVE FormatNat(_)
FormatNat(n) ==
    IF n < 10 THEN <<Digits[n + 1]>>
    ELSE FormatNat(n \div 10) \o <<Digits[(n % 10) + 1]>>

\* format!("{}", x) for an f32 x: shortest decimal text that parses back to x
FormatF32(v) ==
    LET a == Abs(v)
    IN  (IF v < 0 THEN <<"-">> ELSE <<>>)
        \o FormatNat(a \div 10)
        \o (IF a % 10 = 0 THEN <<>> ELSE <<".", Digits[(a % 10) + 1]>>)

RECURSIVE NatVal(_)
NatVal(s) ==
    IF s = <<>> THEN 0
    ELSE NatVal(SubSeq(s, 1, Len(s) - 1)) * 10 + DigitVal(s[Len(s)])

\* position of the first occurrence of c in s, 0 when there is none
FirstIndex(s, c) ==
    IF \E i \in 1..Len(s) : s[i] = c
    THEN CHOOSE i \in 1..Len(s) : s[i] = c /\ \A j \in 1..(i - 1) : s[j] # c
    ELSE 0

\* s.parse::<f32>(): [ok |-> TRUE, val |-> v] or [ok |-> FALSE, val |-> 0]
ParseF32(s) ==
    LET signed == Len(s) > 0 /\ s[1] \in {"-", "+"}
        body == IF signed THEN Tail(s) ELSE s
        dot == FirstIndex(body, ".")
        ip == IF dot = 0 THEN body ELSE SubSeq(body, 1, dot - 1)
        fp == IF dot = 0 THEN <<>> ELSE SubSeq(body, dot + 1, Len(body))
        wellformed == /\ Len(ip) + Len(fp) > 0
                      /\ \A i \in 1..Len(ip) : IsDigit(ip[i])
                      /\ \A i \in 1..Len(fp) : IsDigit(fp[i])
        mag == NatVal(ip) * 10 + (IF fp = <<>> THEN 0 ELSE DigitVal(fp[1]))
    IN  IF wellformed
        THEN [ok |-> TRUE, val |-> IF signed /\ s[1] = "-" THEN -mag ELSE mag]
        ELSE [ok |-> FALSE, val |-> 0]

\* s.split(sep): the pieces between the separators (one piece when there is none)
RECURSIVE Split(_, _)
Split(s, sep) ==
    LET i == FirstIndex(s, sep)
    IN  IF i = 0 THEN <<s>>
        ELSE <<SubSeq(s, 1, i - 1)>> \o Split(SubSeq(s, i + 1, Len(s)), sep)

IsSpace(c) == c \in {" ", "\r", "\t"}

\* s.trim(): leading and trailing whitespace removed
RECURSIVE Trim(_)
Trim(s) ==
    IF s = <<>> THEN s
    ELSE IF IsSpace(s[1]) THEN Trim(Tail(s))
    ELSE IF IsSpace(s[Len(s)]) THEN Trim(SubSeq(s, 1, Len(s) - 1))
    ELSE s

\* s.lines(): split at "\n", a final empty piece dropped, a trailing "\r" cut
StripCr(l) == IF Len(l) > 0 /\ l[Len(l)] = "\r" THEN SubSeq(l, 1, Len(l) - 1) ELSE l
Lines(s) ==
    LET pieces == Split(s, "\n")
        kept == IF pieces[Len(pieces)] = <<>>
                THEN SubSeq(pieces, 1, Len(pieces) - 1) ELSE pieces
    IN  [i \in 1..Len(kept) |-> StripCr(kept[i])]

----------------------------------------------------------------------------
(* Node and network construction *)

\* Node::new(link_weights, b_weight)
NodeNew(link_weights, b_weight) ==
    [link_weights |-> link_weights,
     link_vals |-> [k \in 1..Len(link_weights) |-> None],
     links |-> Len(link_weights),
     err_sig |-> None, correct_answer |-> None, cached_output |-> None,
     category |-> None, b_weight |-> b_weight]

\* the node literal of lines 64 and 73: no weights yet, links set
EmptyNode(links, cached_output) ==
    [link_weights |-> <<>>, link_vals |-> <<>>, links |-> links,
     err_sig |-> None, correct_answer |-> None, cached_output |-> cached_output,
     category |-> None, b_weight |-> None]

\* layer idx of the code (counted from 0)
LayerAt(node_array, idx) == node_array[idx + 1]

\* the k-th value (from 0) the random source yields; it repeats after Len(draws)
Draw(draws, k) == draws[(k % Len(draws)) + 1]

RECURSIVE SumLinks(_)
SumLinks(layer) ==
    IF layer = <<>> THEN 0 ELSE (1 + Head(layer).links) + SumLinks(Tail(layer))

RECURSIVE SumLayers(_)
SumLayers(node_array) ==
    IF node_array = <<>> THEN 0
    ELSE SumLinks(Head(node_array)) + SumLayers(Tail(node_array))

\* lines 59-67: the hidden layers i..hidden_layers pushed onto node_array
RECURSIVE PushHidden(_, _, _, _)
PushHidden(node_array, i, hidden_layers, hidden_num) ==
    IF i > hidden_layers THEN node_array
    ELSE LET hidden_links == Len(LayerAt(node_array, i - 1))
             hidden_vec == [j \in 1..hidden_num |-> EmptyNode(hidden_links, None)]
         IN  PushHidden(Append(node_array, hidden_vec), i + 1, hidden_layers, hidden_num)

\* the answer layer linked to the sensor layer whatever the hidden layers
AnswerLinksToSensor(node_array, hidden_layers) == Len(LayerAt(node_array, 0))

\* lines 69-74: the answer layer, linked to layer hidden_layers
AnswerLinks(node_array, hidden_layers) == Len(LayerAt(node_array, hidden_layers))

PushAnswer(node_array, hidden_layers, pixel_output) ==
    LET answer_links == AnswerLinks(node_array, hidden_layers)
    IN  Append(node_array, [j \in 1..pixel_output |-> EmptyNode(answer_links, Some(0))])

\* lines 76-85: bias and link weights drawn node by node, in layer order
FillWeights(node_array, draws) ==
    [l \in 1..Len(node_array) |->
        [j \in 1..Len(node_array[l]) |->
            LET node == node_array[l][j]
                before == SumLayers(SubSeq(node_array, 1, l - 1))
                          + SumLinks(SubSeq(node_array[l], 1, j - 1))
            IN  [node EXCEPT
                    !.b_weight = Some(Draw(draws, before)),
                    !.link_weights = node.link_weights
                        \o [k \in 1..node.links |-> Draw(draws, before + k)],
                    !.link_vals = node.link_vals
                        \o [k \in 1..node.links |-> None]]]]

\* lines 86-92
CountParams(node_array) == SumLayers(node_array)

\* NeuralNetwork::new
New(pixel_input, hidden_num, pixel_output, hidden_layers, activation_function, draws) ==
    LET sensorLayer == [j \in 1..pixel_input |-> NodeNew(<<>>, None)]
        withHidden == PushHidden(<<sensorLayer>>, 1, hidden_layers, hidden_num)
        withAnswer == PushAnswer(withHidden, hidden_layers, pixel_output)
        node_array == FillWeights(withAnswer, draws)
    IN  [node_array |-> node_array,
         sensor |-> Some(0),
         answer |-> Some(hidden_layers + 1),
         parameters |-> Some(CountParams(node_array)),
         activation_function |-> activation_function]

DrawSeqs == [1..MaxDraws -> WeightVals]

----------------------------------------------------------------------------
(* Model codec: the text written by write_model and parsed by read_model *)

Chars(str) ==
    CASE str = "lb" -> <<"l", "b">>
      [] str = "sigmoid" -> <<"s", "i", "g", "m", "o", "i", "d">>
      [] str = "linear" -> <<"l", "i", "n", "e", "a", "r">>
      [] str = "tanh" -> <<"t", "a", "n", "h">>
      [] str = "step" -> <<"s", "t", "e", "p">>

\* impl Display for ActivationFunction
ActivationDisplay(activation_function) ==
    CASE activation_function = "Sigmoid" -> Chars("sigmoid")
      [] activation_function = "Linear" -> Chars("linear")
      [] activation_function = "Tanh" -> Chars("tanh")
      [] activation_function = "Step" -> Chars("step")

\* lines 436-443: the weights of one node, a comma after all but the last
SerializeWeights(link_weights) ==
    Concat([k \in 1..Len(link_weights) |->
                IF k = Len(link_weights)
                THEN FormatF32(link_weights[k])
                ELSE FormatF32(link_weights[k]) \o <<",">>])

\* lines 435-446: one line per node, "w1,..,wk;b\n"
SerializeNode(node) ==
    SerializeWeights(node.link_weights)
        \o <<";">> \o FormatF32(Unwrap(node.b_weight)) \o <<"\n">>

\* lines 431-447: "lb\n" before every layer but the first
SerializeLayer(node_array, i) ==
    (IF i # 1 THEN Chars("lb") \o <<"\n">> ELSE <<>>)
        \o Concat([j \in 1..Len(node_array[i]) |-> SerializeNode(node_array[i][j])])

\* lines 429-449: the whole text of a model file
Serialize(n) ==
    Concat([i \in 1..Len(n.node_array) |-> SerializeLayer(n.node_array, i)])
        \o Chars("lb") \o <<"\n">>
        \o ActivationDisplay(n.activation_function)

\* line 444: b_weight.unwrap() on a node without a bias
SerializePanics(n) ==
    \E i \in 1..Len(n.node_array) : \E j \in 1..Len(n.node_array[i]) :
        ~IsSome(n.node_array[i][j].b_weight)

\* lines 494-500: the activation a line names, None for any other line
ActivationOfLine(line) ==
    CASE line = Chars("sigmoid") -> Some("Sigmoid")
      [] line = Chars("linear") -> Some("Linear")
      [] line = Chars("tanh") -> Some("Tanh")
      [] line = Chars("step") -> Some("Step")
      [] OTHER -> None

\* lines 512-515: a node line of the first layer; [panic, node]
ParseSensorNode(line) ==
    LET b_weight == Split(line, ";")
    IN  IF Len(b_weight) < 2 THEN [panic |-> TRUE, node |-> None]
        ELSE LET b == ParseF32(b_weight[2])
             IN  IF ~b.ok THEN [panic |-> TRUE, node |-> None]
                 ELSE [panic |-> FALSE, node |-> Some(NodeNew(<<>>, Some(b.val)))]

\* lines 517-529: a node line of a later layer; [panic, node]
ParseLinkedNode(line) ==
    LET node_data == Split(Trim(line), ";")
        str_weight_array == Split(node_data[1], ",")
        parsed == [w \in 1..Len(str_weight_array) |-> ParseF32(str_weight_array[w])]
        weight_array == [w \in 1..Len(parsed) |-> parsed[w].val]
    IN  IF Len(node_data) < 2 THEN [panic |-> TRUE, node |-> None]
        ELSE IF \E w \in 1..Len(parsed) : ~parsed[w].ok
        THEN [panic |-> TRUE, node |-> None]
        ELSE LET b == ParseF32(node_data[2])
             IN  IF ~b.ok THEN [panic |-> TRUE, node |-> None]
                 ELSE [panic |-> FALSE, node |-> Some(NodeNew(weight_array, Some(b.val)))]

\* lines 492-537: the loop over the lines, from line k on
RECURSIVE ReadLines(_, _, _)
ReadLines(lines, k, st) ==
    IF k > Len(lines) \/ st.panic THEN st
    ELSE LET i == lines[k]
             act == ActivationOfLine(i)
         IN  IF IsSome(act)
             THEN ReadLines(lines, k + 1, [st EXCEPT !.activation = act])
             ELSE IF Trim(i) = Chars("lb")
             THEN ReadLines(lines, k + 1,
                    [st EXCEPT !.node_array = Append(@, st.layer), !.layer = <<>>])
             ELSE LET r == IF Len(st.node_array) = 0
                           THEN ParseSensorNode(i) ELSE ParseLinkedNode(i)
                  IN  IF r.panic THEN [st EXCEPT !.panic = TRUE]
                      ELSE ReadLines(lines, k + 1,
                             [st EXCEPT !.layer = Append(@, Unwrap(r.node))])

\* lines 489-551: the network read_model builds from the text of a file.
\* checked: whether the build traps on integer overflow (line 540 computes
\* node_array.len() - 1 in usize).  [panic, net]
ParseModel(serialized_net, checked) ==
    LET st == ReadLines(Lines(serialized_net), 1,
                [node_array |-> <<>>, layer |-> <<>>, activation |-> None,
                 panic |-> FALSE])
        underflow == Len(st.node_array) = 0
    IN  IF st.panic \/ (underflow /\ checked) \/ ~IsSome(st.activation)
        THEN [panic |-> TRUE, net |-> None]
        ELSE [panic |-> FALSE,
              net |-> Some([node_array |-> st.node_array,
                            sensor |-> Some(0),
                            \* usize::MAX on wrap-around, written -1
                            answer |-> Some(Len(st.node_array) - 1),
                            parameters |-> None,
                            activation_function |-> Unwrap(st.activation)])]

----------------------------------------------------------------------------
(* Forward propagation *)

\* product of two f32 values (tenths times tenths, back to tenths)
Mul(a, b) == (a * b) \div 10

Clamp(x, lo, hi) == Max(lo, Min(hi, x))

\* the activation functions, in tenths
Activate(activation_function, x) ==
    CASE activation_function = "Sigmoid" -> Clamp(5 + (x \div 4), 0, 10)
      [] activation_function = "Linear" -> x
      [] activation_function = "Tanh" -> Clamp(x, -10, 10)
      [] activation_function = "Step" -> IF x > 0 THEN 10 ELSE 0

RECURSIVE WeightedSum(_, _, _)
WeightedSum(link_vals, link_weights, k) ==
    IF k > Len(link_weights) THEN 0
    ELSE (IF k <= Len(link_vals) /\ IsSome(link_vals[k])
          THEN Mul(Unwrap(link_vals[k]), link_weights[k]) ELSE 0)
         + WeightedSum(link_vals, link_weights, k + 1)

\* Node::output: the activation of the weighted link values plus the bias,
\* cached in the node
NodeOutput(node, activation_function) ==
    [node EXCEPT !.cached_output =
        Some(Activate(activation_function,
                      WeightedSum(node.link_vals, node.link_weights, 1)
                      + Unwrap(node.b_weight)))]

\* Input::new(inputs, answer)
InputNew(inputs, answer) == [inputs |-> inputs, answer |-> answer]

\* lines 255-259: the sample copied into the sensor layer; the index
\* data[line].inputs[i] is out of bounds from node Len(inputs) on
SensorPanics(node_array, inputs) == Len(LayerAt(node_array, 0)) > Len(inputs)

FeedSensors(node_array, inputs) ==
    [node_array EXCEPT ![1] =
        [i \in 1..Len(node_array[1]) |->
            IF i <= Len(inputs)
            THEN [node_array[1][i] EXCEPT !.cached_output = Some(inputs[i])]
            ELSE node_array[1][i]]]

\* the previous outputs stored over the link weights instead of the link values
FeedNodeIntoWeights(node, prev_layer, activation_function) ==
    NodeOutput(
        [node EXCEPT !.link_weights =
            [k \in 1..Len(node.link_weights) |->
                IF k <= Len(prev_layer)
                THEN Unwrap(prev_layer[k].cached_output)
                ELSE node.link_weights[k]]],
        activation_function)

\* the previous outputs pushed onto the link values (line 268, commented out
\* in the code) instead of stored in place
FeedNodePushesVals(node, prev_layer, activation_function) ==
    NodeOutput(
        [node EXCEPT !.link_vals =
            @ \o [k \in 1..Len(prev_layer) |->
                    Some(Unwrap(prev_layer[k].cached_output))]],
        activation_function)

\* lines 264-275 for one node: every link value set from the previous layer
\* (line 269), the output recomputed after each and once more at the end
FeedNode(node, prev_layer, activation_function) ==
    NodeOutput(
        [node EXCEPT !.link_vals =
            [k \in 1..Len(node.link_vals) |->
                IF k <= Len(prev_layer)
                THEN Some(Unwrap(prev_layer[k].cached_output))
                ELSE node.link_vals[k]]],
        activation_function)

\* line 269 indexes link_vals[prev_node] and unwraps the previous output
FeedNodePanics(node, prev_layer) ==
    \/ Len(node.link_vals) < Len(prev_layer)
    \/ \E k \in 1..Len(prev_layer) : ~IsSome(prev_layer[k].cached_output)

\* lines 262-276 from layer l (counted from 1 in the sequence) on; [panic, node_array]
RECURSIVE FeedLayers(_, _, _)
FeedLayers(node_array, l, activation_function) ==
    IF l > Len(node_array) THEN [panic |-> FALSE, node_array |-> node_array]
    ELSE LET prev_layer == node_array[l - 1]
         IN  IF \E j \in 1..Len(node_array[l]) :
                    FeedNodePanics(node_array[l][j], prev_layer)
             THEN [panic |-> TRUE, node_array |-> node_array]
             ELSE FeedLayers(
                    [node_array EXCEPT ![l] =
                        [j \in 1..Len(node_array[l]) |->
                            FeedNode(node_array[l][j], prev_layer, activation_function)]],
                    l + 1, activation_function)

\* push_downstream(data, line) with sample == data[line]; [panic, net]
PushDownstream(n, sample) ==
    LET fed == FeedSensors(n.node_array, sample.inputs)
    IN  IF SensorPanics(n.node_array, sample.inputs)
        THEN [panic |-> TRUE, net |-> [n EXCEPT !.node_array = fed]]
        ELSE LET r == FeedLayers(fed, 2, n.activation_function)
             IN  [panic |-> r.panic, net |-> [n EXCEPT !.node_array = r.node_array]]

\* lines 179-182 and 242-245: the outputs of the answer layer, each recomputed
AnswerOutputs(n) ==
    LET layer == LayerAt(n.node_array, Unwrap(n.answer))
    IN  [i \in 1..Len(layer) |->
            Unwrap(NodeOutput(layer[i], n.activation_function).cached_output)]

RecomputeAnswers(n) ==
    [n EXCEPT !.node_array[Unwrap(n.answer) + 1] =
        [i \in 1..Len(@) |-> NodeOutput(@[i], n.activation_function)]]

----------------------------------------------------------------------------
(* Backpropagation *)

\* Node::compute_answer_err_sig_gen(mse): the error signal of an answer node
\* from the loss term
ComputeAnswerErrSigGen(node, mse) ==
    LET out == Unwrap(node.cached_output)
    IN  [node EXCEPT !.err_sig = Some(Mul(mse, Mul(out, 10 - out)))]

\* Node::adjust_weights(learning_rate): weight -= rate * err_sig * input,
\* the bias likewise with the error signal alone
AdjustWeights(node, learning_rate) ==
    LET err == Unwrap(node.err_sig)
    IN  [node EXCEPT
            !.link_weights = [k \in 1..Len(@) |->
                @[k] - Mul(learning_rate, Mul(err, Unwrap(node.link_vals[k])))],
            !.b_weight = Some(Unwrap(@) - Mul(learning_rate, err))]

AdjustWeightsPanics(node) ==
    \/ ~IsSome(node.err_sig)
    \/ ~IsSome(node.b_weight)
    \/ \E k \in 1..Len(node.link_weights) :
            k > Len(node.link_vals) \/ ~IsSome(node.link_vals[k])

\* lines 309-330: the error signal of node hidden of layer HIDDEN (both counted
\* from 1 in the sequences), summed over the nodes of the next layer, whose
\* missing error signals are first set to 0.0 (lines 312-319)
ZeroMissingErrSig(layer) ==
    [m \in 1..Len(layer) |->
        IF IsSome(layer[m].err_sig) THEN layer[m]
        ELSE [layer[m] EXCEPT !.err_sig = Some(0)]]

RECURSIVE ErrSum(_, _, _)
ErrSum(next_layer, hidden, m) ==
    IF m > Len(next_layer) THEN 0
    ELSE Mul(Unwrap(next_layer[m].err_sig), next_layer[m].link_weights[hidden])
         + ErrSum(next_layer, hidden, m + 1)

HiddenErrSigPanics(node_array, HIDDEN, hidden) ==
    \/ \E m \in 1..Len(node_array[HIDDEN + 1]) :
            Len(node_array[HIDDEN + 1][m].link_weights) < hidden
    \/ ~IsSome(node_array[HIDDEN][hidden].cached_output)

HiddenErrSig(node_array, HIDDEN, hidden) ==
    LET next_layer == ZeroMissingErrSig(node_array[HIDDEN + 1])
        hidden_result == Unwrap(node_array[HIDDEN][hidden].cached_output)
        multiplied_value ==
            Mul(Mul(ErrSum(next_layer, hidden, 1), hidden_result), 10 - hidden_result)
    IN  [node_array EXCEPT
            ![HIDDEN + 1] = next_layer,
            ![HIDDEN][hidden].err_sig = Some(multiplied_value)]

\* lines 307-339: the hidden layers in ascending order, each node's error
\* signal computed and its weights adjusted at once; [panic, node_array]
RECURSIVE AdjustHiddenWeights(_, _, _, _, _)
AdjustHiddenWeights(node_array, learning_rate, hidden_layers, HIDDEN, hidden) ==
    IF HIDDEN > hidden_layers + 1 THEN [panic |-> FALSE, node_array |-> node_array]
    ELSE IF hidden > Len(node_array[HIDDEN])
    THEN AdjustHiddenWeights(node_array, learning_rate, hidden_layers, HIDDEN + 1, 1)
    ELSE IF HiddenErrSigPanics(node_array, HIDDEN, hidden)
    THEN [panic |-> TRUE, node_array |-> node_array]
    ELSE LET signalled == HiddenErrSig(node_array, HIDDEN, hidden)
         IN  IF AdjustWeightsPanics(signalled[HIDDEN][hidden])
             THEN [panic |-> TRUE, node_array |-> signalled]
             ELSE AdjustHiddenWeights(
                    [signalled EXCEPT ![HIDDEN][hidden] =
                        AdjustWeights(@, learning_rate)],
                    learning_rate, hidden_layers, HIDDEN, hidden + 1)

\* backpropogate(learning_rate, hidden_layers, mse); [panic, net]
Backpropogate(n, learning_rate, hidden_layers, mse) ==
    LET a == Unwrap(n.answer) + 1
        answers == n.node_array[a]
    IN  IF \E i \in 1..Len(answers) : ~IsSome(answers[i].cached_output)
        THEN [panic |-> TRUE, net |-> n]
        ELSE LET signalled == [n.node_array EXCEPT ![a] =
                    [i \in 1..Len(answers) |-> ComputeAnswerErrSigGen(answers[i], mse)]]
                 h == AdjustHiddenWeights(signalled, learning_rate, hidden_layers, 2, 1)
             IN  IF h.panic
                    \/ \E i \in 1..Len(answers) : AdjustWeightsPanics(h.node_array[a][i])
                 THEN [panic |-> TRUE, net |-> [n EXCEPT !.node_array = h.node_array]]
                 ELSE [panic |-> FALSE,
                       net |-> [n EXCEPT !.node_array =
                            [h.node_array EXCEPT ![a] =
                                [i \in 1..Len(answers) |->
                                    AdjustWeights(h.node_array[a][i], learning_rate)]]]]

----------------------------------------------------------------------------
(* The file system and the calls *)

\* format!("model_{}_{}.darj", name, file_num)
ModelName(name, file_num) == <<"model_", name, file_num, ".darj">>

FileExists(fs, model_name) == model_name \in DOMAIN fs

\* the file system with the content of model_name replaced (or the file created)
FileWritten(fs, model_name, content) ==
    [f \in DOMAIN fs \cup {model_name} |-> IF f = model_name THEN content ELSE fs[f]]

FileRemoved(fs, model_name) == [f \in DOMAIN fs \ {model_name} |-> fs[f]]

NoFiles == [f \in {} |-> <<>>]

\* texts a model file found on disk may hold
ValidText ==
    <<";", "1", "\n", "l", "b", "\n", "0", ".", "2", ";", "-", "3", "\n",
      "l", "b", "\n", "t", "a", "n", "h">>
BadWeightText ==
    <<";", "1", "\n", "l", "b", "\n", "x", ";", "2", "\n",
      "l", "b", "\n", "s", "i", "g", "m", "o", "i", "d">>
EmptyWeightText ==
    <<";", "1", "\n", "l", "b", "\n", ";", "2", "\n",
      "l", "b", "\n", "s", "i", "g", "m", "o", "i", "d">>
BadBiasText ==
    <<";", "1", "\n", "l", "b", "\n", "2", ";", "y", "\n",
      "l", "b", "\n", "s", "i", "g", "m", "o", "i", "d">>
EmptyBiasText ==
    <<";", "\n", "l", "b", "\n", "s", "i", "g", "m", "o", "i", "d">>
NoSeparatorText ==
    <<";", "1", "\n", "l", "b", "\n", "2", "\n",
      "l", "b", "\n", "s", "i", "g", "m", "o", "i", "d">>
NoSeparatorSensorText ==
    <<"1", "\n", "l", "b", "\n", "s", "i", "g", "m", "o", "i", "d">>
TruncatedText ==
    <<";", "1", "\n", "l", "b", "\n", "2", ";", "3", "\n", "l", "b", "\n">>
NoLayerText == <<"s", "i", "g", "m", "o", "i", "d">>

MalformedTexts ==
    {BadWeightText, EmptyWeightText, BadBiasText, EmptyBiasText,
     NoSeparatorText, NoSeparatorSensorText, TruncatedText}
OldTexts == MalformedTexts \cup {ValidText, NoLayerText}

\* the file systems a run may start with: empty, or one older model file
InitFiles ==
    {NoFiles} \cup
    {FileWritten(NoFiles, ModelName(name, 0), text) : name \in Names, text \in OldTexts}

\* the position of a backpropogate call: its arguments, the loop indices of
\* lines 291, 298, 307 and 308, and the error signals computed and the nodes
\* adjusted so far, in the order it happened; calls and passes count the
\* backpropogate and push_downstream calls made on the network
NoBp ==
    [learning_rate |-> 0, hidden_layers |-> 0, mse |-> 0,
     answer |-> 0, HIDDEN |-> 1, hidden |-> 0, log |-> <<>>,
     calls |-> 0, passes |-> 0]

\* handed: the collection learn passed to the discriminator's training
NoCall ==
    [op |-> "none", name |-> "", wm_name |-> None, collided |-> FALSE, fresh |-> FALSE,
     failure |-> "none", panic_line |-> 0, before |-> None,
     data |-> <<>>, line |-> 0, outputs |-> <<>>,
     max_cycles |-> 0, epochs |-> 0, model_name |-> None, mse |-> 0,
     handed |-> None, bp |-> NoBp]

NoRet == [op |-> "none", kind |-> "none", err |-> "", name |-> None, outputs |-> <<>>]
Ok(op, model_name) == [NoRet EXCEPT !.op = op, !.kind = "Ok", !.name = Some(model_name)]
Err(op, err) == [NoRet EXCEPT !.op = op, !.kind = "Err", !.err = err]

Init ==
    /\ net = None
    /\ files \in InitFiles
    /\ pc = "start"
    /\ ret = NoRet
    /\ loaded = None
    /\ call = NoCall
    /\ pre = NoFiles
    /\ args = <<>>

\* the file systems on which construction and the calls after it are explored
BuildFiles ==
    {NoFiles} \cup {FileWritten(NoFiles, ModelName(name, 0), ValidText) : name \in Names}

\* let mut net = NeuralNetwork::new(...)
NewCall ==
    /\ pc = "start"
    /\ files \in BuildFiles
    /\ \E pixel_input \in 0..MaxWidth, hidden_num \in 0..MaxWidth,
          pixel_output \in 0..MaxWidth, hidden_layers \in 0..MaxHiddenLayers,
          activation_function \in Activations, draws \in DrawSeqs :
            /\ net' = Some(New(pixel_input, hidden_num, pixel_output, hidden_layers,
                               activation_function, draws))
            /\ args' = <<pixel_input, hidden_num, pixel_output, hidden_layers>>
    /\ pc' = "idle"
    /\ call' = [NoCall EXCEPT !.op = "new"]
    /\ UNCHANGED <<files, ret, loaded, pre>>

----------------------------------------------------------------------------
(* write_model *)

\* net.write_model(name)
WriteModelCall ==
    /\ pc = "idle"
    /\ \E name \in Names : call' = [NoCall EXCEPT !.op = "write_model", !.name = name]
    /\ pre' = files
    /\ pc' = "wm_exists"
    /\ UNCHANGED <<net, files, ret, loaded, args>>

\* an existing file taken for a missing one
TryExistsOverwrites(fs, model_name, fails) == IF fails THEN "unknown" ELSE "create"

\* where line 425 leads: "create" for Ok(false), "retry" for Ok(true) (the
\* recursive call of line 462), "unknown" for Err
TryExists(fs, model_name, fails) ==
    IF fails THEN "unknown"
    ELSE IF FileExists(fs, model_name) THEN "retry"
    ELSE "create"

\* lines 421-425 and 461-464: a name is drawn and looked up
WriteModelExists ==
    /\ pc = "wm_exists"
    /\ \E file_num \in 0..MaxSuffix, fails \in BOOLEAN :
        LET model_name == ModelName(call.name, file_num)
            branch == TryExists(files, model_name, fails)
        IN  CASE branch = "create" ->
                    /\ call' = [call EXCEPT !.wm_name = Some(model_name)]
                    /\ pc' = "wm_create"
                    /\ ret' = ret
              [] branch = "retry" ->
                    /\ call' = [call EXCEPT !.collided = TRUE]
                    /\ pc' = "wm_exists"
                    /\ ret' = ret
              [] branch = "unknown" ->
                    /\ call' = [call EXCEPT !.failure = "try_exists"]
                    /\ pc' = "done"
                    /\ ret' = Err(call.op, "UnknownError")
    /\ UNCHANGED <<net, files, loaded, pre, args>>

\* line 428: fs::File::create(&model_name).unwrap()
WriteModelCreate ==
    /\ pc = "wm_create"
    /\ \E fails \in BOOLEAN :
        IF fails
        THEN /\ pc' = "panic"
             /\ call' = [call EXCEPT !.failure = "create", !.panic_line = 428]
             /\ files' = files
        ELSE /\ pc' = "wm_write"
             /\ call' = call
             /\ files' = FileWritten(files, Unwrap(call.wm_name), <<>>)
    /\ UNCHANGED <<net, ret, loaded, pre, args>>

\* what a failed fs::write may leave in the file: nothing, or part of the text
PartialTexts(serialized) == {<<>>, SubSeq(serialized, 1, Len(serialized) \div 2)}

\* lines 429-459: the text is built and written
WriteModelWrite ==
    /\ pc = "wm_write"
    /\ IF SerializePanics(Unwrap(net))
       THEN /\ pc' = "panic"
            /\ call' = [call EXCEPT !.panic_line = 444]
            /\ UNCHANGED <<files, ret>>
       ELSE LET serialized == Serialize(Unwrap(net))
                model_name == Unwrap(call.wm_name)
            IN  \E fails \in BOOLEAN :
                    IF fails
                    THEN /\ \E left \in PartialTexts(serialized) :
                                files' = FileWritten(files, model_name, left)
                         /\ ret' = Err(call.op, "WriteModelFailed")
                         /\ call' = [call EXCEPT !.failure = "write"]
                         /\ pc' = "done"
                    ELSE /\ files' = FileWritten(files, model_name, serialized)
                         /\ ret' = Ok(call.op, model_name)
                         /\ call' = call
                         /\ pc' = "done"
    /\ UNCHANGED <<net, loaded, pre, args>>

----------------------------------------------------------------------------
(* read_model *)

\* NeuralNetwork::read_model(model_name)
ReadModelCall ==
    /\ pc \in {"start", "done"}
    /\ \E model_name \in DOMAIN files, fails \in BOOLEAN, checked \in BOOLEAN :
        /\ call' = [NoCall EXCEPT !.op = "read_model", !.wm_name = Some(model_name),
                                  !.failure = IF fails THEN "read" ELSE "none",
                                  \* the name is the one write_model just returned
                                  !.fresh = (ret = Ok("write_model", model_name))]
        /\ IF fails
           THEN /\ ret' = Err("read_model", "ReadModelFailed")
                /\ loaded' = None
                /\ pc' = "read"
           ELSE LET r == ParseModel(files[model_name], checked)
                IN  IF r.panic
                    THEN /\ pc' = "panic"
                         /\ loaded' = None
                         /\ ret' = NoRet
                    ELSE /\ pc' = "read"
                         /\ loaded' = r.net
                         /\ ret' = Ok("read_model", model_name)
    /\ pre' = files
    /\ UNCHANGED <<net, files, args>>

Next ==
    \/ NewCall
    \/ WriteModelCall
    \/ WriteModelExists
    \/ WriteModelCreate
    \/ WriteModelWrite
    \/ ReadModelCall

Spec == Init /\ [][Next]_vars

----------------------------------------------------------------------------
(* Inference and the adversarial training loop *)

\* the samples and the data sequences handed to test and learn
Samples ==
    {InputNew(inputs, None) :
        inputs \in UNION {[1..len -> FeatureVals] : len \in 0..MaxFeatures}}
\* the callers' sequences, shortest sample first: test and learn shuffle the
\* sequence before they read it, which yields every other order
DataSets ==
    {data \in UNION {[1..len -> Samples] : len \in 0..MaxSamples} :
        \A i, j \in 1..Len(data) :
            i < j => Len(data[i].inputs) <= Len(data[j].inputs)}

\* data.shuffle(&mut thread_rng()): any order of the same samples
Shuffles(data) ==
    {[i \in 1..Len(data) |-> data[p[i]]] :
        p \in {q \in [1..Len(data) -> 1..Len(data)] :
                \A i, j \in 1..Len(data) : q[i] = q[j] => i = j}}

LearningRates == {5}       \* learning_rate and distinguising_learning_rate
MseVals == {2}             \* errmse returned by the discriminator's training

\* the networks the calls are explored on
RunDraws == [k \in 1..MaxDraws |-> IF k % 2 = 1 THEN -3 ELSE 2]
RunArgs ==
    {<<pixel_input, MaxWidth, pixel_output, hidden_layers>> :
        pixel_input \in 0..MaxWidth, pixel_output \in {1, MaxWidth},
        hidden_layers \in {0, MaxHiddenLayers + 1}}

InitRun ==
    /\ \E a \in RunArgs, activation_function \in Activations :
        /\ net = Some(New(a[1], a[2], a[3], a[4], activation_function, RunDraws))
        /\ args = a
    /\ files \in BuildFiles
    /\ pc = "idle"
    /\ ret = NoRet
    /\ loaded = None
    /\ call = [NoCall EXCEPT !.op = "new"]
    /\ pre = NoFiles

\* net.test(&mut data), line 238
TestCall ==
    /\ pc = "idle"
    /\ \E data \in DataSets : \E shuffled \in Shuffles(data) :
        call' = [NoCall EXCEPT !.op = "test", !.data = shuffled, !.before = net]
    /\ pre' = files
    /\ pc' = "test_loop"
    /\ UNCHANGED <<net, files, ret, loaded, args>>

\* lines 240-247: one sample pushed downstream and the answers collected
TestSample ==
    /\ pc = "test_loop"
    /\ call.line < Len(call.data)
    /\ LET r == PushDownstream(Unwrap(net), call.data[call.line + 1])
       IN  IF r.panic
           THEN /\ net' = Some(r.net)
                /\ pc' = "panic"
                /\ call' = [call EXCEPT !.panic_line =
                                IF SensorPanics(Unwrap(net).node_array,
                                                call.data[call.line + 1].inputs)
                                THEN 256 ELSE 269]
           ELSE /\ net' = Some(RecomputeAnswers(r.net))
                /\ pc' = "test_loop"
                /\ call' = [call EXCEPT
                                !.line = @ + 1,
                                !.outputs = Append(@, InputNew(AnswerOutputs(r.net), None))]
    /\ UNCHANGED <<files, ret, loaded, pre, args>>

\* line 248
TestReturn ==
    /\ pc = "test_loop"
    /\ call.line = Len(call.data)
    /\ ret' = [NoRet EXCEPT !.op = "test", !.kind = "Ok", !.outputs = call.outputs]
    /\ pc' = "done"
    /\ UNCHANGED <<net, files, loaded, call, pre, args>>

\* net.learn(&mut data, learning_rate, name, max_cycles, ...), lines 168-172
LearnCall ==
    /\ pc = "idle"
    /\ \E data \in DataSets, name \in Names, max_cycles \in 0..MaxCycles :
        /\ call' = [NoCall EXCEPT !.op = "learn", !.name = name, !.data = data,
                                  !.max_cycles = max_cycles, !.before = net]
        /\ pc' = IF 0 < max_cycles THEN "learn_shuffle" ELSE "wm_exists"
    /\ pre' = files
    /\ UNCHANGED <<net, files, ret, loaded, args>>

\* lines 174-175: an epoch starts
LearnShuffle ==
    /\ pc = "learn_shuffle"
    /\ \E shuffled \in Shuffles(call.data) :
        call' = [call EXCEPT !.data = shuffled, !.line = 0]
    /\ pc' = "learn_forward"
    /\ UNCHANGED <<net, files, ret, loaded, pre, args>>

\* lines 176-186: one sample pushed downstream; its output tagged fake and the
\* sample itself tagged real are both appended to outputs
LearnSample ==
    /\ pc = "learn_forward"
    /\ call.line < Len(call.data)
    /\ LET r == PushDownstream(Unwrap(net), call.data[call.line + 1])
           real == [call.data[call.line + 1] EXCEPT !.answer = Some(TRUE)]
       IN  IF r.panic
           THEN /\ net' = Some(r.net)
                /\ pc' = "panic"
                /\ call' = [call EXCEPT !.panic_line =
                                IF SensorPanics(Unwrap(net).node_array,
                                                call.data[call.line + 1].inputs)
                                THEN 256 ELSE 269]
           ELSE /\ net' = Some(RecomputeAnswers(r.net))
                /\ pc' = "learn_forward"
                /\ call' = [call EXCEPT
                                !.line = @ + 1,
                                !.data[call.line + 1] = real,
                                !.outputs = @ \o <<InputNew(AnswerOutputs(r.net), Some(FALSE)),
                                                   real>>]
    /\ UNCHANGED <<files, ret, loaded, pre, args>>

\* "distinguishing".to_owned() + &name
DistinguishingName(name) == CASE name = "gen" -> "distinguishinggen"

\* the first epoch takes the removal of the stale file for done
FirstEpochRemoveSkipped(model_name) == IF IsSome(model_name) THEN "remove" ELSE "skip"

\* line 204: std::fs::remove_file(model_name.unwrap()) in the branch where
\* model_name is None
FirstEpochRemove(model_name) == IF IsSome(model_name) THEN "remove" ELSE "panic"

\* categorize::NeuralNetwork::learn on the discriminator: on success a model
\* file under a name not yet on disk, and its name and mse returned
DiscriminatorLearn(fs, name, file_num, mse) ==
    [fs |-> FileWritten(fs, ModelName(DistinguishingName(name), file_num), <<"d">>),
     model_name |-> Some(ModelName(DistinguishingName(name), file_num)),
     mse |-> mse]

\* the first argument of the discriminator's learn: outputs when a persisted
\* discriminator was reloaded (line 192), data when a fresh one was built
\* (line 207)
HandedToTraining ==
    IF IsSome(call.model_name) THEN call.outputs ELSE call.data

\* lines 221-224 after a trained discriminator: the generator adjusted, the
\* epoch counted, and the loop continued or left for line 228
LearnEpochEnd(trained) ==
    LET n == Unwrap(net)
        b == Backpropogate(n, CHOOSE r \in LearningRates : TRUE,
                           Len(n.node_array) - 2, trained.mse)
    IN  /\ files' = trained.fs
        /\ net' = Some(b.net)
        /\ ret' = ret
        /\ IF b.panic
           THEN /\ pc' = "panic"
                /\ call' = [call EXCEPT !.model_name = trained.model_name,
                                        !.mse = trained.mse, !.panic_line = 327,
                                        !.handed = Some(HandedToTraining)]
           ELSE /\ pc' = IF call.epochs + 1 < call.max_cycles
                         THEN "learn_shuffle" ELSE "wm_exists"
                /\ call' = [call EXCEPT !.model_name = trained.model_name,
                                        !.mse = trained.mse, !.epochs = @ + 1,
                                        !.handed = Some(HandedToTraining)]

LearnPanics(failure, line) ==
    /\ pc' = "panic"
    /\ call' = [call EXCEPT !.failure = failure, !.panic_line = line]
    /\ UNCHANGED <<net, files, ret>>

LearnFails(failure, err, fs) ==
    /\ pc' = "done"
    /\ call' = [call EXCEPT !.failure = failure,
                            !.handed = IF failure = "training"
                                       THEN Some(HandedToTraining) ELSE @]
    /\ ret' = Err("learn", err)
    /\ files' = fs
    /\ net' = net

\* lines 191-198 and 206-214: the discriminator trained, or its training failed
LearnTrain(fs) ==
    \/ LearnFails("training", "DisinguishingModelError", fs)
    \/ \E file_num \in 0..MaxSuffix, mse \in MseVals :
        /\ ~FileExists(fs, ModelName(DistinguishingName(call.name), file_num))
        /\ LearnEpochEnd(DiscriminatorLearn(fs, call.name, file_num, mse))

\* lines 189 and 204: the stale discriminator file removed, or not
LearnRemove ==
    \/ LearnFails("remove", "RemoveModelFailed", files)
    \/ LearnTrain(FileRemoved(files, Unwrap(call.model_name)))

\* lines 187-224: the rest of an epoch once every sample is pushed
LearnDiscriminator ==
    /\ pc = "learn_forward"
    /\ call.line = Len(call.data)
    /\ IF IsSome(call.model_name)
       THEN \* line 188: categorize's read_model(...).unwrap(), then line 189
            \E fails \in BOOLEAN :
                IF fails \/ ~FileExists(files, Unwrap(call.model_name))
                THEN LearnPanics("read", 188)
                ELSE LearnRemove
       ELSE \* line 203: a fresh discriminator; line 204
            CASE FirstEpochRemove(call.model_name) = "panic" -> LearnPanics("none", 204)
              [] FirstEpochRemove(call.model_name) = "remove" -> LearnRemove
              [] FirstEpochRemove(call.model_name) = "skip" -> LearnTrain(files)
    /\ UNCHANGED <<loaded, pre, args>>

NextRun ==
    \/ TestCall
    \/ TestSample
    \/ TestReturn
    \/ LearnCall
    \/ LearnShuffle
    \/ LearnSample
    \/ LearnDiscriminator
    \/ WriteModelExists
    \/ WriteModelCreate
    \/ WriteModelWrite

SpecRun == InitRun /\ [][NextRun]_vars

----------------------------------------------------------------------------
(* Backpropagation step by step, on built and on reloaded networks *)

\* the networks the steps are explored on
TrainArgs ==
    {<<pixel_input, hidden_num, pixel_output, hidden_layers>> :
        pixel_input \in {0, MaxWidth}, hidden_num \in {0, MaxWidth},
        pixel_output \in {1, MaxWidth}, hidden_layers \in 0..(MaxHiddenLayers + 1)}

\* a network out of new, or out of read_model of the file write_model wrote for it
InitTrain ==
    /\ \E a \in TrainArgs, activation_function \in Activations, reload \in BOOLEAN :
        LET built == New(a[1], a[2], a[3], a[4], activation_function, RunDraws)
            r == ParseModel(Serialize(built), TRUE)
            name == CHOOSE nm \in Names : TRUE
        IN  /\ args = a
            /\ IF reload
               THEN /\ ~r.panic
                    /\ net = r.net
                    /\ files = FileWritten(NoFiles, ModelName(name, 0), Serialize(built))
                    /\ call = [NoCall EXCEPT !.op = "read_model"]
               ELSE /\ net = Some(built)
                    /\ files = NoFiles
                    /\ call = [NoCall EXCEPT !.op = "new"]
    /\ pc = "idle"
    /\ ret = NoRet
    /\ loaded = None
    /\ pre = NoFiles

\* push_downstream(data, line) on one sample
PushDownstreamCall ==
    /\ pc = "idle"
    /\ call.bp.passes < MaxPasses
    /\ \E sample \in Samples :
        LET r == PushDownstream(Unwrap(net), sample)
        IN  /\ net' = Some(r.net)
            /\ pc' = IF r.panic THEN "panic" ELSE "idle"
            /\ call' = [call EXCEPT
                            !.op = "push_downstream",
                            !.bp.passes = @ + 1,
                            !.panic_line =
                                IF ~r.panic THEN @
                                ELSE IF SensorPanics(Unwrap(net).node_array, sample.inputs)
                                THEN 256 ELSE 269]
    /\ UNCHANGED <<files, ret, loaded, pre, args>>

\* backpropogate(learning_rate, hidden_layers, mse) entered, with hidden_layers
\* as learn computes it (line 169)
BackpropogateCall ==
    /\ pc = "idle"
    /\ call.bp.calls < MaxCalls
    /\ \E learning_rate \in LearningRates, mse \in MseVals :
        call' = [call EXCEPT
                    !.op = "backpropogate",
                    !.before = net,
                    !.bp = [@ EXCEPT !.learning_rate = learning_rate,
                                     !.hidden_layers = Len(Unwrap(net).node_array) - 2,
                                     !.mse = mse,
                                     !.answer = 0, !.HIDDEN = 1, !.hidden = 0,
                                     !.log = <<>>]]
    /\ pc' = "bp_answer_err_sig"
    /\ UNCHANGED <<net, files, ret, loaded, pre, args>>

BpPanics(line) ==
    /\ pc' = "panic"
    /\ call' = [call EXCEPT !.panic_line = line]
    /\ net' = net

\* lines 291-295: the error signal of one answer node; after the last one,
\* adjust_hidden_weights is entered (line 296)
BpAnswerErrSig ==
    /\ pc = "bp_answer_err_sig"
    /\ LET n == Unwrap(net)
           a == Unwrap(n.answer)
           answer == call.bp.answer
       IN  IF answer >= Len(LayerAt(n.node_array, a))
           THEN /\ pc' = "bp_hidden_err_sig"
                /\ call' = [call EXCEPT !.bp.HIDDEN = 1, !.bp.hidden = 0]
                /\ net' = net
           ELSE IF ~IsSome(LayerAt(n.node_array, a)[answer + 1].cached_output)
           THEN BpPanics(293)
           ELSE /\ net' = Some([n EXCEPT !.node_array[a + 1][answer + 1] =
                                    ComputeAnswerErrSigGen(@, call.bp.mse)])
                /\ call' = [call EXCEPT
                                !.bp.answer = @ + 1,
                                !.bp.log = Append(@, <<"err_sig", a, answer>>)]
                /\ pc' = pc
    /\ UNCHANGED <<files, ret, loaded, pre, args>>

\* lines 307-330: the error signal of node hidden of layer HIDDEN; after the
\* last hidden layer the answer nodes are adjusted (line 298)
BpHiddenErrSig ==
    /\ pc = "bp_hidden_err_sig"
    /\ LET n == Unwrap(net)
           HIDDEN == call.bp.HIDDEN
           hidden == call.bp.hidden
       IN  IF HIDDEN >= call.bp.hidden_layers + 1
           THEN /\ pc' = "bp_answer_adjust"
                /\ call' = [call EXCEPT !.bp.answer = 0]
                /\ net' = net
           ELSE IF hidden >= Len(LayerAt(n.node_array, HIDDEN))
           THEN /\ pc' = pc
                /\ call' = [call EXCEPT !.bp.HIDDEN = @ + 1, !.bp.hidden = 0]
                /\ net' = net
           ELSE IF HiddenErrSigPanics(n.node_array, HIDDEN + 1, hidden + 1)
           THEN BpPanics(327)
           ELSE /\ net' = Some([n EXCEPT !.node_array =
                                    HiddenErrSig(@, HIDDEN + 1, hidden + 1)])
                /\ call' = [call EXCEPT
                                !.bp.log = Append(@, <<"err_sig", HIDDEN, hidden>>)]
                /\ pc' = "bp_hidden_adjust"
    /\ UNCHANGED <<files, ret, loaded, pre, args>>

\* line 337: the weights of the hidden node whose error signal was just computed
BpHiddenAdjust ==
    /\ pc = "bp_hidden_adjust"
    /\ LET n == Unwrap(net)
           HIDDEN == call.bp.HIDDEN
           hidden == call.bp.hidden
       IN  IF AdjustWeightsPanics(LayerAt(n.node_array, HIDDEN)[hidden + 1])
           THEN BpPanics(337)
           ELSE /\ net' = Some([n EXCEPT !.node_array[HIDDEN + 1][hidden + 1] =
                                    AdjustWeights(@, call.bp.learning_rate)])
                /\ call' = [call EXCEPT
                                !.bp.hidden = @ + 1,
                                !.bp.log = Append(@, <<"adjust", HIDDEN, hidden>>)]
                /\ pc' = "bp_hidden_err_sig"
    /\ UNCHANGED <<files, ret, loaded, pre, args>>

\* lines 298-301: the weights of one answer node; after the last one the call
\* returns
BpAnswerAdjust ==
    /\ pc = "bp_answer_adjust"
    /\ LET n == Unwrap(net)
           a == Unwrap(n.answer)
           answer == call.bp.answer
       IN  IF answer >= Len(LayerAt(n.node_array, a))
           THEN /\ pc' = "idle"
                /\ call' = [call EXCEPT !.bp.calls = @ + 1]
                /\ net' = net
           ELSE IF AdjustWeightsPanics(LayerAt(n.node_array, a)[answer + 1])
           THEN BpPanics(299)
           ELSE /\ net' = Some([n EXCEPT !.node_array[a + 1][answer + 1] =
                                    AdjustWeights(@, call.bp.learning_rate)])
                /\ call' = [call EXCEPT
                                !.bp.answer = @ + 1,
                                !.bp.log = Append(@, <<"adjust", a, answer>>)]
                /\ pc' = pc
    /\ UNCHANGED <<files, ret, loaded, pre, args>>

NextTrain ==
    \/ PushDownstreamCall
    \/ BackpropogateCall
    \/ BpAnswerErrSig
    \/ BpHiddenErrSig
    \/ BpHiddenAdjust
    \/ BpAnswerAdjust
    \/ TestCall
    \/ TestSample
    \/ TestReturn

SpecTrain == InitTrain /\ [][NextTrain]_vars

----------------------------------------------------------------------------
(* Properties of construction and of the codec *)

\* inputs + hidden-layer terms + outputs * (width of the last non-answer layer + 1)
ParameterFormula(pixel_input, hidden_num, pixel_output, hidden_layers) ==
    pixel_input
    + (IF hidden_layers = 0 THEN 0
       ELSE hidden_num * (pixel_input + 1)
            + (hidden_layers - 1) * hidden_num * (hidden_num + 1))
    + pixel_output * ((IF hidden_layers = 0 THEN pixel_input ELSE hidden_num) + 1)

RECURSIVE WeightsPlusBias(_)
WeightsPlusBias(layer) ==
    IF layer = <<>> THEN 0
    ELSE (Len(Head(layer).link_weights) + 1) + WeightsPlusBias(Tail(layer))

RECURSIVE AllWeightsPlusBias(_)
AllWeightsPlusBias(node_array) ==
    IF node_array = <<>> THEN 0
    ELSE WeightsPlusBias(Head(node_array)) + AllWeightsPlusBias(Tail(node_array))

\* C9: the network returned by new has parameters equal to the number of link
\* weights and biases it holds, which is inputs + hidden-layer terms +
\* outputs * (width of the last non-answer layer + 1), zero hidden layers included
C9_ParametersCountWeights ==
    (call.op = "new") =>
        LET n == Unwrap(net)
        IN  /\ n.parameters =
                Some(ParameterFormula(args[1], args[2], args[3], args[4]))
            /\ n.parameters = Some(AllWeightsPlusBias(n.node_array))

\* a network without hidden layers whose answer nodes link to the sensors
C9_Witness ==
    /\ call.op = "new"
    /\ args[4] = 0 /\ args[1] > 0 /\ args[3] > 0
    /\ \A j \in 1..args[3] : Len(Unwrap(net).node_array[2][j].link_weights) = args[1]

\* same layers, nodes, weights, biases and activation function
SameModel(a, b) ==
    /\ Len(a.node_array) = Len(b.node_array)
    /\ \A i \in 1..Len(a.node_array) :
        /\ Len(a.node_array[i]) = Len(b.node_array[i])
        /\ \A j \in 1..Len(a.node_array[i]) :
            /\ a.node_array[i][j].link_weights = b.node_array[i][j].link_weights
            /\ a.node_array[i][j].b_weight = b.node_array[i][j].b_weight
    /\ a.activation_function = b.activation_function

\* C2: write_model followed at once by read_model of the returned name
\* succeeds and yields the same layers, nodes, weights, biases and activation,
\* for every network new builds (zero hidden layers and empty layers included)
C2_RoundTrip ==
    (call.op = "read_model" /\ call.fresh /\ call.failure = "none") =>
        /\ pc = "read"
        /\ IsSome(loaded)
        /\ SameModel(Unwrap(net), Unwrap(loaded))

\* C3: read_model of a readable file with malformed content returns a
\* ReadModelFailed error value and does not crash
C3_MalformedIsReadError ==
    (/\ call.op = "read_model" /\ call.failure = "none"
     /\ files[Unwrap(call.wm_name)] \in MalformedTexts) =>
        /\ pc = "read"
        /\ ret = Err("read_model", "ReadModelFailed")

C8_WriteFailureIsErrorAndClean ==
    (call.op = "write_model") =>
        /\ (pc = "done" /\ ret.kind = "Ok") =>
                files[Unwrap(ret.name)] = Serialize(Unwrap(net))
        /\ (call.failure \in {"create", "write"}) =>
                /\ pc = "done"
                /\ ret = Err("write_model", "WriteModelFailed")
                /\ DOMAIN files = DOMAIN pre

----------------------------------------------------------------------------
(* Properties of inference and of the training loop *)

SensorWidth == Len(LayerAt(Unwrap(net).node_array, 0))

\* every sample of the running call has one feature per sensor node
SamplesFit == \A k \in 1..Len(call.data) : Len(call.data[k].inputs) = SensorWidth

GeneratorFiles(name) == {ModelName(name, file_num) : file_num \in 0..MaxSuffix}

\* C1: with max_cycles >= 1 and no failing file operation or discriminator
\* training, learn does not crash in an epoch, and when it ends it has run
\* all max_cycles epochs and returns Ok with the name of the generator file
\* it wrote
C1_LearnRunsAllEpochs ==
    (/\ call.op = "learn" /\ call.max_cycles >= 1
     /\ call.failure = "none" /\ Len(call.data) >= 1 /\ SamplesFit) =>
        /\ pc # "panic"
        /\ (pc = "done") =>
            /\ call.epochs = call.max_cycles
            /\ ret.op = "learn" /\ ret.kind = "Ok"
            /\ Unwrap(ret.name) \in GeneratorFiles(call.name)
            /\ Unwrap(ret.name) \in DOMAIN files

\* C4: a sample whose length differs from the sensor-layer width is never
\* pushed downstream: no out-of-bounds index, and no sample with more
\* features than sensors is processed as if it fitted
C4_MismatchedSampleRejected ==
    (call.op \in {"test", "learn"}) =>
        /\ ~(pc = "panic" /\ call.panic_line = 256)
        /\ \A k \in 1..call.line : Len(call.data[k].inputs) = SensorWidth

\* the typed error each failure inside learn is to be returned as
ErrorOf(failure) ==
    CASE failure = "read" -> "ReadModelFailed"
      [] failure = "remove" -> "RemoveModelFailed"
      [] failure = "training" -> "DisinguishingModelError"
      [] failure = "try_exists" -> "UnknownError"
      [] OTHER -> "WriteModelFailed"

\* C6: every failure inside learn ends the call with the matching typed
\* error (a failed read, removal, training or write of a model), without a
\* crash and without a generator file written
C6_LearnFailureIsTypedError ==
    (call.op = "learn" /\ call.failure # "none") =>
        /\ pc = "done"
        /\ ret = Err("learn", ErrorOf(call.failure))
        /\ \A f \in GeneratorFiles(call.name) : f \in DOMAIN files => f \in DOMAIN pre

SameWeights(a, b) ==
    /\ Len(a.node_array) = Len(b.node_array)
    /\ \A i \in 1..Len(a.node_array) :
        /\ Len(a.node_array[i]) = Len(b.node_array[i])
        /\ \A j \in 1..Len(a.node_array[i]) :
            /\ a.node_array[i][j].link_weights = b.node_array[i][j].link_weights
            /\ a.node_array[i][j].b_weight = b.node_array[i][j].b_weight
            /\ a.node_array[i][j].links = b.node_array[i][j].links

\* C10: test leaves every link weight and bias as it was and touches no file
C10_TestKeepsWeightsAndFiles ==
    (call.op = "test") =>
        /\ SameWeights(Unwrap(call.before), Unwrap(net))
        /\ files = pre

\* test has returned the outputs of two samples, and cached values changed
C10_Witness ==
    /\ call.op = "test" /\ pc = "done"
    /\ Len(ret.outputs) = 2
    /\ Len(ret.outputs[1].inputs) > 0
    /\ net # call.before
    /\ \E i \in 2..Len(Unwrap(net).node_array) :
        \E j \in 1..Len(Unwrap(net).node_array[i]) :
            /\ Unwrap(net).node_array[i][j].links > 0
            /\ \A k \in 1..Unwrap(net).node_array[i][j].links :
                    IsSome(Unwrap(net).node_array[i][j].link_vals[k])

----------------------------------------------------------------------------
(* Properties of backpropagation *)

\* the nodes that carry an error signal: <<layer, node>> of every layer after
\* the sensor layer, counted from 0 as in the code
LinkedNodes(n) ==
    UNION {{<<l, i>> : i \in 0..(Len(LayerAt(n.node_array, l)) - 1)} :
                l \in 1..(Len(n.node_array) - 1)}

\* the error signal of <<l, i>> was computed before position p of the log
ComputedBefore(log, p, l, i) ==
    \E q \in 1..(p - 1) : log[q] = <<"err_sig", l, i>>

\* C11: within one backpropogate call no node's weights or bias are adjusted
\* before the error signal of every node of every layer has been computed
C11_AdjustAfterAllErrSigs ==
    (call.op = "backpropogate") =>
        \A p \in 1..Len(call.bp.log) :
            (call.bp.log[p][1] = "adjust") =>
                \A x \in LinkedNodes(Unwrap(net)) :
                    ComputedBefore(call.bp.log, p, x[1], x[2])

\* C12: within one backpropogate call the error signal of a node of hidden
\* layer L is computed only after the error signals of all nodes of layer
\* L + 1 were computed in that call, so that it is derived from them and not
\* from a value of an earlier call or a substituted zero
C12_ErrSigsFromAnswerBackward ==
    (call.op = "backpropogate") =>
        \A p \in 1..Len(call.bp.log) :
            (call.bp.log[p][1] = "err_sig" /\ call.bp.log[p][2] <= call.bp.hidden_layers) =>
                \A x \in LinkedNodes(Unwrap(net)) :
                    (x[1] = call.bp.log[p][2] + 1) =>
                        ComputedBefore(call.bp.log, p, x[1], x[2])

----------------------------------------------------------------------------
(* Properties of the collection handed to the discriminator *)

\* learn has processed every sample of an epoch and gone on, without a failed
\* file operation and with samples that fit the sensor layer
EpochSamplesProcessed ==
    /\ call.op = "learn"
    /\ call.max_cycles > 0
    /\ Len(call.data) >= 1
    /\ call.line = Len(call.data)
    /\ pc \notin {"learn_shuffle", "learn_forward"}
    /\ call.panic_line \notin {256, 269}
    /\ call.failure \notin {"read", "remove"}

\* one fake-tagged output followed by the real-tagged sample, for each sample
\* of data in turn, and nothing else
CombinedCollection(collection, data) ==
    /\ Len(collection) = 2 * Len(data)
    /\ \A k \in 1..Len(data) :
        /\ collection[2 * k - 1].answer = Some(FALSE)
        /\ collection[2 * k] = [data[k] EXCEPT !.answer = Some(TRUE)]

\* C13: in every epoch, the first included, the discriminator's training is
\* handed that epoch's combined collection: a fake-tagged output and the
\* real-tagged sample for each sample of the epoch, nothing from earlier epochs
C13_TrainingGetsEpochCollection ==
    EpochSamplesProcessed =>
        /\ IsSome(call.handed)
        /\ CombinedCollection(Unwrap(call.handed), call.data)

----------------------------------------------------------------------------
(* Structure of a network *)

\* every sensor node has no incoming link, every later node has one link per
\* node of the layer before, with as many weights and as many link values
LinksMatchLayers(n) ==
    \A l \in 1..Len(n.node_array) : \A j \in 1..Len(n.node_array[l]) :
        LET node == n.node_array[l][j]
        IN  /\ node.links = IF l = 1 THEN 0 ELSE Len(n.node_array[l - 1])
            /\ Len(node.link_weights) = node.links
            /\ Len(node.link_vals) = node.links

\* C14: a network built by new or reloaded by read_model from a file that
\* write_model wrote, after any forward passes, backpropogate calls and test
\* calls, has sensor nodes without links, later nodes with one link per node
\* of the previous layer, link_weights and link_vals of length links, sensor
\* index 0 and the answer index on the last layer
C14_StructureKept ==
    IsSome(net) =>
        /\ LinksMatchLayers(Unwrap(net))
        /\ Unwrap(net).sensor = Some(0)
        /\ Unwrap(net).answer = Some(Len(Unwrap(net).node_array) - 1)

\* a reloaded network went through a backpropogate call and then through a
\* test call of two samples, which filled every link value
C14_Witness ==
    /\ files # NoFiles
    /\ call.op = "test" /\ pc = "done"
    /\ Len(ret.outputs) = 2
    /\ Len(Unwrap(net).node_array) >= 3
    /\ \A l \in 2..Len(Unwrap(net).node_array) :
        /\ Len(Unwrap(net).node_array[l]) >= 1
        /\ \A j \in 1..Len(Unwrap(net).node_array[l]) :
            /\ IsSome(Unwrap(net).node_array[l][j].err_sig)
            /\ Unwrap(net).node_array[l][j].links >= 1
            /\ \A k \in 1..Unwrap(net).node_array[l][j].links :
                    IsSome(Unwrap(net).node_array[l][j].link_vals[k])

====
